---- MODULE Spec2Model ----
(***************************************************************************)
(* Model of the resumable batch pipeline of appraise.py:                   *)
(* PaintingAppraiser.load_appraisals, save_appraisals, run_appraisal and   *)
(* the outcome reported by main.                                           *)
(*                                                                         *)
(* One run of run_appraisal is a sequential program; every statement that  *)
(* changes state or calls out is one step, so that a KeyboardInterrupt     *)
(* (delivered between any two statements) and the exceptions the code      *)
(* handles can be placed where Python can raise them.  Several runs follow  *)
(* one another against the same durable file.  The helper functions        *)
(* (_is_valid_product_image, _get_numeric_value, appraise_painting, the    *)
(* image loop of get_painting_details) are also called directly, on inputs *)
(* drawn from small sets (SpecCalls).                                      *)
(***************************************************************************)
EXTENDS Integers, Sequences, FiniteSets, TLC

\* ------------------------------------------------------------------ bounds
MaxRuns == 2
MaxPages == 2
MaxSaveFailures == 1
MaxLoadFailures == 1

\* ------------------------------------------------------- program constants
\* run_appraisal: "if (i + 1) % 5 == 0" (checkpoint every 5 items)
SaveEvery == 5

\* ---------------------------------------------------------- environment
\* Listing URLs are numbered; URL u stands for base_url/item/<u>.
URLs == 1..6

\* The best estimate the oracle returns for an item when its call succeeds.
\* Items 1 and 3 tie; item 4 outranks every item listed before it.
OracleBest(u) ==
    CASE u = 1 -> 100
      [] u = 2 -> 50
      [] u = 3 -> 100
      [] u = 4 -> 200
      [] u = 5 -> 50
      [] OTHER -> 10

\* What the listing service holds: one sequence of listing URLs per page.
\* LayoutBatch: one page of five entries, the third and fourth repeating the
\*              first two.
\* LayoutPages: two pages, the second repeating an item of the first.
\* LayoutLong:  one page of seven entries, the fifth repeating the first.
LayoutBatch == << <<1, 2, 1, 2, 3>> >>
LayoutPages == << <<1, 2>>, <<2, 3>> >>
LayoutLong == << <<1, 2, 3, 4, 1, 5, 6>> >>

\* ------------------------------------------------------------------ state
VARIABLES
    layout,          \* the listing service's pages (fixed during a behaviour)
    max_pages,       \* run_appraisal argument: the page ceiling
    runs_left,       \* how many more times the program may be started
    pc,              \* position of the running program
    unwinding,       \* the exception that is propagating, or "none"
    page,            \* loop variable of "for page in range(...)"
    i,               \* loop variable of "for i, painting_basic in enumerate"
    paintings,       \* the page returned by get_paintings_list
    start_page,      \* max(1, data["last_page"]) as loaded
    start_item,      \* data["last_item"] as loaded, 0 after the first page
    appraisals_list, \* the result sequence (the list data["appraisals"])
    processed_urls,  \* the local set processed_urls
    data,            \* the dict data, without "appraisals" (always the list above)
    painting_details,\* result of get_painting_details for the current item
    appraisal,       \* result of appraise_painting for the current item
    file,            \* the durable artifact appraisals.csv
    outcome,         \* what main reported for the last run
    exit_code,       \* process exit status of the last run
    fetch_count,     \* history: get_painting_details calls per URL, this run
    oracle_count,    \* history: oracle invocations per URL, this run
    save_arg,        \* history: the state handed to the last save_appraisals call
    save_failures,   \* history: number of I/O failures of save_appraisals so far
    load_failures,   \* history: number of failed reads of an intact file so far
    prior,           \* history: the state an interrupted previous run saved and ended with
    log,             \* history: per-item results of this run (see NoLog)
    call,            \* the last direct call of a helper function, with the
                     \* appraiser's usage counters (see NoCall)
    args,            \* environment and command line of the latest start
    migration        \* the files migrate_to_paintings.py works on, and
                     \* what its latest call did (see NoMigration)

vars == << layout, max_pages, runs_left, pc, unwinding, page, i, paintings,
           start_page, start_item, appraisals_list, processed_urls, data,
           painting_details, appraisal, file, outcome, exit_code,
           fetch_count, oracle_count, save_arg, save_failures, load_failures, prior, log, call, args, migration >>

NoAppraisal == [url |-> 0, best |-> 0]
NoDetails == [url |-> 0, images |-> 0]
NoPrior == [interrupted |-> FALSE, processed_urls |-> {}, keys |-> {}]
NoSave == [called |-> FALSE, keys |-> {}, processed_urls |-> {},
           last_page |-> 0, last_item |-> 0]
\* appraised: URLs for which appraise_painting returned an Appraisal;
\* raised: URLs whose handling entered the per-item "except Exception".
\* listed: the page numbers passed to get_paintings_list, in call order;
\* empty: the latest of those calls returned an empty page.
NoLog == [appraised |-> {}, raised |-> {}, listed |-> << >>, empty |-> FALSE]

\* ------------------------------------------------------------ pure helpers
\* Variant: the second argument is taken as it is.
MaxSecond(a, b) == b

Max(a, b) == IF a >= b THEN a ELSE b

Range(s) == { s[k] : k \in 1..Len(s) }

\* A Valuation is modelled by its listing URL and its best estimate; RowOf is
\* its CSV row (the columns url and estimated_value_best).
RowOf(a) == [url |-> a.url, best |-> a.best]

Rows(s) == [k \in 1..Len(s) |-> RowOf(s[k])]

Keys(s) == { RowOf(s[k]) : k \in 1..Len(s) }

UrlsOf(s) == { s[k].url : k \in 1..Len(s) }

\* Variant: x goes before the entries of equal best (an unstable sort).
RECURSIVE InsertDescUnstable(_, _)
InsertDescUnstable(s, x) ==
    IF s = << >> THEN << x >>
    ELSE IF Head(s).best > x.best
         THEN << Head(s) >> \o InsertDescUnstable(Tail(s), x)
         ELSE << x >> \o s

\* Stable insertion of x into s, which is ordered by non-increasing best.
RECURSIVE InsertDesc(_, _)
InsertDesc(s, x) ==
    IF s = << >> THEN << x >>
    ELSE IF Head(s).best >= x.best
         THEN << Head(s) >> \o InsertDesc(Tail(s), x)
         ELSE << x >> \o s

\* Stable sort by descending best estimate (list.sort(reverse=True), and
\* DataFrame.sort_values(ascending=False) on the short frames modelled here).
RECURSIVE SortDesc(_)
SortDesc(s) ==
    IF s = << >> THEN << >>
    ELSE InsertDesc(SortDesc(SubSeq(s, 1, Len(s) - 1)), s[Len(s)])

\* get_paintings_list(page) when the request succeeds.
Listing(p) == IF p \in 1..Len(layout) THEN layout[p] ELSE << >>

\* ------------------------------------------------------------ ResultStore
AbsentFile == [kind |-> "absent", rows |-> << >>]
CorruptFile == [kind |-> "corrupt", rows |-> << >>]
EmptyState == [appraisals |-> << >>, processed_urls |-> {},
               last_page |-> 0, last_item |-> 0]

\* Variant: only FileNotFoundError is handled; a file that cannot be read
\* this time still yields the rows seen.
load_appraisalsUnguarded(f, readable) ==
    IF f.kind = "ok"
    THEN [appraisals |-> [k \in 1..Len(f.rows) |->
                            [url |-> f.rows[k].url, best |-> f.rows[k].best]],
          processed_urls |-> { f.rows[k].url : k \in 1..Len(f.rows) },
          last_page |-> 0, last_item |-> 0]
    ELSE [appraisals |-> << >>, processed_urls |-> {},
          last_page |-> 0, last_item |-> 0]

\* Variant: the rows' URLs are not collected.
load_appraisalsNoUrls(f, readable) ==
    IF f.kind = "ok" /\ readable
    THEN [appraisals |-> [k \in 1..Len(f.rows) |->
                            [url |-> f.rows[k].url, best |-> f.rows[k].best]],
          processed_urls |-> {},
          last_page |-> 0, last_item |-> 0]
    ELSE [appraisals |-> << >>, processed_urls |-> {},
          last_page |-> 0, last_item |-> 0]

\* Variant: a cursor is returned with the rows.
load_appraisalsWithCursor(f, readable) ==
    IF f.kind = "ok" /\ readable
    THEN [appraisals |-> [k \in 1..Len(f.rows) |->
                            [url |-> f.rows[k].url, best |-> f.rows[k].best]],
          processed_urls |-> { f.rows[k].url : k \in 1..Len(f.rows) },
          last_page |-> 2, last_item |-> Len(f.rows)]
    ELSE [appraisals |-> << >>, processed_urls |-> {},
          last_page |-> 0, last_item |-> 0]

\* load_appraisals: one Appraisal per CSV row, in file order; the processed
\* set is the set of the rows' URLs; the cursor is always (0, 0).
\* FileNotFoundError and every other exception (a file that does not parse,
\* or that cannot be read this time: readable = FALSE) give the empty state.
load_appraisals(f, readable) ==
    IF f.kind = "ok" /\ readable
    THEN [appraisals |-> [k \in 1..Len(f.rows) |->
                            [url |-> f.rows[k].url, best |-> f.rows[k].best]],
          processed_urls |-> { f.rows[k].url : k \in 1..Len(f.rows) },
          last_page |-> 0, last_item |-> 0]
    ELSE EmptyState

\* Variant: the rows are written in list order, without sort_values.
WriteCsvUnsorted(list) == [kind |-> "ok", rows |-> Rows(list)]

\* The file a successful save_appraisals leaves: the rows of data["appraisals"]
\* sorted by descending estimated_value_best.  Only the Appraisal rows are
\* written: processed_urls, last_page and last_item are not.
WriteCsv(list) == [kind |-> "ok", rows |-> SortDesc(Rows(list))]

\* The state handed to save_appraisals(data, ...).
SaveArgument ==
    [called |-> TRUE, keys |-> Keys(appraisals_list),
     processed_urls |-> data.processed_urls,
     last_page |-> data.last_page, last_item |-> data.last_item]

\* Variant: the empty frame is written like any other (a file with no row).
save_appraisalsEmptyFrame ==
    /\ save_arg' = SaveArgument
    /\ \/ /\ file' = WriteCsv(appraisals_list)
          /\ UNCHANGED save_failures
       \/ /\ appraisals_list # << >>
          /\ save_failures < MaxSaveFailures
          /\ save_failures' = save_failures + 1
          /\ file' \in {file, CorruptFile}

\* save_appraisals(data): never raises.
\*  - empty list: pd.DataFrame([]) has no columns, df[column_order] raises
\*    KeyError, which is caught: nothing is written;
\*  - otherwise the file is overwritten, unless the write fails (caught):
\*    then the file is left as it was (failure before the file is opened) or
\*    truncated/partial (failure during to_csv), which no longer loads.
save_appraisals ==
    /\ save_arg' = SaveArgument
    /\ \/ /\ appraisals_list = << >>
          /\ UNCHANGED << file, save_failures >>
       \/ /\ appraisals_list # << >>
          /\ file' = WriteCsv(appraisals_list)
          /\ UNCHANGED save_failures
       \/ /\ appraisals_list # << >>
          /\ save_failures < MaxSaveFailures
          /\ save_failures' = save_failures + 1
          /\ file' \in {file, CorruptFile}

\* Variant: a failed write is re-raised to the caller.
SaveReraises(next, failed) == IF failed THEN "finally" ELSE next

\* Lines 745-746: every exception inside save_appraisals is caught and
\* printed, so the caller goes on to its next statement whether or not the
\* file was written.
SaveReturnsTo(next, failed) == next

\* The save_appraisals call of this step did not write the file it was asked
\* to write.
SaveFailed == file' # WriteCsv(appraisals_list)

\* ------------------------------------------------------- PipelineController
\* Statements inside the per-item "try:" (lines 788-830).
ItemTryPcs == {"fetch_detail", "appraise", "got_appraisal", "append", "mark",
               "update", "batch_save", "sleep"}

\* Statements inside the outer "try:" (lines 767-858).
TryPcs == ItemTryPcs \cup {"page_loop", "item_loop", "announce", "exc_handler",
                           "exc_save", "page_update", "page_save", "page_sleep"}

\* Variant: no per-item "try:", an exception of an item leaves the loops.
PropagateNoItemTry(exc, at) == "finally"

\* Variant: no "finally:", the exception leaves run_appraisal directly.
PropagateNoFinally(exc, at) ==
    IF exc = "Exception" /\ at \in ItemTryPcs THEN "exc_handler"
    ELSE "main_except"

\* Variant: the per-item handler is a bare "except:".
PropagateBareExcept(exc, at) ==
    IF at \in ItemTryPcs THEN "exc_handler" ELSE "finally"

\* Where an exception raised at position `at` continues: the per-item handler
\* is "except Exception", which KeyboardInterrupt (a BaseException) passes;
\* everything else unwinds through the "finally:" of the outer try.
Propagate(exc, at) ==
    IF exc = "Exception" /\ at \in ItemTryPcs THEN "exc_handler" ELSE "finally"

\* Variant: no dedup test.
AlreadyProcessedNever(u) == FALSE

\* Variant: the dedup test looks at the URLs of the Valuations only.
AlreadyProcessedValued(u) == u \in UrlsOf(appraisals_list)

\* "if painting_basic.url in processed_urls"
AlreadyProcessed(u) == u \in processed_urls

\* The item at index i of the current page (i is 0-based as in the code).
CurrentUrl == paintings[i + 1]

\* Variant: the set is replaced by the URL.
AddProcessedReplaces(u) ==
    /\ processed_urls' = {u}
    /\ data' = IF data.linked
               THEN [data EXCEPT !.processed_urls = {u}]
               ELSE data

\* Variant: the URL is not marked.
AddProcessedForgotten(u) == UNCHANGED << processed_urls, data >>

\* processed_urls.add(u); data["processed_urls"] is the same set object once
\* data.update(...) has run, and the set returned by load_appraisals before.
AddProcessed(u) ==
    /\ processed_urls' = processed_urls \cup {u}
    /\ data' = IF data.linked
               THEN [data EXCEPT !.processed_urls = @ \cup {u}]
               ELSE data

\* Variant: the cursor is left as it was.
DataUpdateNoCursor(p, n) ==
    data' = [data EXCEPT !.processed_urls = processed_urls, !.linked = TRUE]

\* data.update({... "last_page": p, "last_item": n})
DataUpdate(p, n) ==
    data' = [processed_urls |-> processed_urls, last_page |-> p,
             last_item |-> n, linked |-> TRUE]

\* Variant: the item after the current one is passed over.
ContinueSkipping ==
    /\ i' = i + 2
    /\ painting_details' = NoDetails
    /\ appraisal' = NoAppraisal
    /\ pc' = "item_loop"

\* Variant: the loop comes back to the same index.
ContinueRepeats ==
    /\ i' = i
    /\ painting_details' = NoDetails
    /\ appraisal' = NoAppraisal
    /\ pc' = "item_loop"

\* "continue" / end of the loop body: on to the next item of the page.
Continue ==
    /\ i' = i + 1
    /\ painting_details' = NoDetails
    /\ appraisal' = NoAppraisal
    /\ pc' = "item_loop"

ZeroCount == [u \in URLs |-> 0]

\* No helper has been called directly; the usage counters of __init__.
NoCall == [fn |-> "none", total_requests |-> 0, total_tokens |-> 0,
           total_input_tokens |-> 0]

\* -------------------------------------------------- migrate_to_paintings
\* A file is absent, or holds text that is not JSON ("garbage"), or JSON
\* that is not an object ("array"), or a JSON object.  A key of an object
\* is << >> when missing and << value >> when present.
Absent == [kind |-> "absent"]

\* No file in the directory, migrate_progress_to_appraisals not yet called.
NoMigration ==
    [progress |-> Absent, progress_backup |-> Absent, appraisals |-> Absent,
     valuable |-> Absent, valuable_backup |-> Absent,
     calls |-> 0, last |-> "none"]

\* ------------------------------------------------------------------ main
\* "--url" not given (line 1030: default None).
NoUrl == 0

\* OPENAI_API_KEY unset, set to the empty string, or set; --url given or not.
Args == [api_key : {"absent", "", "sk"}, url : {NoUrl, 3}]

\* The key is set and no --url is given.
BatchArgs == [api_key |-> "sk", url |-> NoUrl]

\* Variant: the key is not looked at.
ModeIgnoresKey(a) == IF a.url # NoUrl THEN "single" ELSE "batch"

\* Variant: --url is not looked at.
ModeIgnoresUrl(a) == IF a.api_key \in {"absent", ""} THEN "exit" ELSE "batch"

\* main lines 1043-1049 and 1067-1071: "if not api_key: ... sys.exit(1)",
\* then "if args.url:" chooses appraise_single_url or run_appraisal.
Mode(a) ==
    IF a.api_key \in {"absent", ""} THEN "exit"
    ELSE IF a.url # NoUrl THEN "single"
    ELSE "batch"

InitRun(l, m, r) ==
    /\ layout = l
    /\ max_pages = m
    /\ runs_left = r
    /\ pc = "idle"
    /\ unwinding = "none"
    /\ page = 0
    /\ i = 0
    /\ paintings = << >>
    /\ start_page = 0
    /\ start_item = 0
    /\ appraisals_list = << >>
    /\ processed_urls = {}
    /\ data = [processed_urls |-> {}, last_page |-> 0, last_item |-> 0,
               linked |-> FALSE]
    /\ painting_details = NoDetails
    /\ appraisal = NoAppraisal
    /\ file = AbsentFile
    /\ outcome = "none"
    /\ exit_code = 0
    /\ fetch_count = ZeroCount
    /\ oracle_count = ZeroCount
    /\ save_arg = NoSave
    /\ save_failures = 0
    /\ load_failures = 0
    /\ prior = NoPrior
    /\ log = NoLog
    /\ call = NoCall
    /\ args = BatchArgs

\* The appraiser's program in a directory without migration files.
InitWith(l, m, r) ==
    /\ InitRun(l, m, r)
    /\ migration = NoMigration

\* The program is started up to MaxRuns times against a listing of several
\* short pages.
Init == \E l \in {LayoutBatch, LayoutPages} : InitWith(l, MaxPages, MaxRuns)

\* One start against a page longer than one batch.
InitLong == InitWith(LayoutLong, 1, 1)

\* Lines 762-765 and the first value of the page loop variable (768), for
\* the state st that load_appraisals returned.
Begin(st) ==
    /\ appraisals_list' = st.appraisals
    /\ processed_urls' = st.processed_urls
    /\ data' = [processed_urls |-> st.processed_urls,
                last_page |-> st.last_page, last_item |-> st.last_item,
                linked |-> FALSE]
    /\ start_page' = Max(1, st.last_page)
    /\ start_item' = st.last_item
    /\ page' = Max(1, st.last_page)

\* main starts the program; run_appraisal lines 760-765.
StartRun ==
    /\ pc \in {"idle", "exited"}
    /\ runs_left > 0
    /\ runs_left' = runs_left - 1
    /\ \E readable \in BOOLEAN :
       LET st == load_appraisals(file, readable) IN
        /\ readable \/ (file.kind = "ok" /\ load_failures < MaxLoadFailures)
        /\ load_failures' = IF readable THEN load_failures
                            ELSE load_failures + 1
        /\ Begin(st)
    /\ \E a \in Args : Mode(a) = "batch" /\ args' = a
    /\ i' = 0
    /\ paintings' = << >>
    /\ painting_details' = NoDetails
    /\ appraisal' = NoAppraisal
    /\ unwinding' = "none"
    /\ outcome' = "none"
    /\ exit_code' = 0
    /\ fetch_count' = ZeroCount
    /\ oracle_count' = ZeroCount
    /\ save_arg' = NoSave
    /\ prior' = IF outcome = "interrupted" /\ file = WriteCsv(appraisals_list)
                THEN [interrupted |-> TRUE, processed_urls |-> processed_urls,
                      keys |-> Keys(appraisals_list)]
                ELSE NoPrior
    /\ log' = NoLog
    /\ pc' = "page_loop"
    /\ UNCHANGED << layout, max_pages, file, save_failures, call, migration >>

\* "for page in range(start_page, max_pages + 1)" is exhausted.
CeilingReached ==
    /\ pc = "page_loop"
    /\ page > max_pages
    /\ pc' = "finally"
    /\ UNCHANGED << layout, max_pages, runs_left, unwinding, page, i, paintings,
                    start_page, start_item, appraisals_list, processed_urls,
                    data, painting_details, appraisal, file, outcome,
                    exit_code, fetch_count, oracle_count, save_arg,
                    save_failures, load_failures, prior, log, call, args, migration >>

\* Variant: an empty page is passed over and paging goes on.
BreakContinues == "page_sleep"

\* Line 776: "break" leaves the page loop; the finally clause is next.
Break == "finally"

\* Lines 772-779: get_paintings_list returns the page, or [] when the request
\* or its parsing failed; an empty page ends the paging ("break").
FetchListing ==
    /\ pc = "page_loop"
    /\ page <= max_pages
    /\ \E r \in {Listing(page), << >>} :
        /\ IF r = << >>
           THEN /\ pc' = Break
                /\ UNCHANGED << paintings, i >>
           ELSE /\ paintings' = r
                /\ i' = IF page = start_page THEN start_item ELSE 0
                /\ pc' = "item_loop"
        /\ log' = [log EXCEPT !.listed = Append(@, page),
                              !.empty = (r = << >>)]
    /\ UNCHANGED << layout, max_pages, runs_left, unwinding, page,
                    start_page, start_item, appraisals_list, processed_urls,
                    data, painting_details, appraisal, file, outcome,
                    exit_code, fetch_count, oracle_count, save_arg,
                    save_failures, load_failures, prior, call, args, migration >>

\* Lines 781-784: next item of the page; skipped when already processed.
NextItem ==
    /\ pc = "item_loop"
    /\ i < Len(paintings)
    /\ IF AlreadyProcessed(CurrentUrl)
       THEN i' = i + 1 /\ pc' = "item_loop"
       ELSE i' = i /\ pc' = "announce"
    /\ UNCHANGED << layout, max_pages, runs_left, unwinding, page, paintings,
                    start_page, start_item, appraisals_list, processed_urls,
                    data, painting_details, appraisal, file, outcome,
                    exit_code, fetch_count, oracle_count, save_arg,
                    save_failures, load_failures, prior, log, call, args, migration >>

\* Line 786: the progress print, outside the per-item try.  It returns, or it
\* raises (a closed or non-UTF-8 stdout), which escapes the page loop.
Announce ==
    /\ pc = "announce"
    /\ \/ /\ pc' = "fetch_detail"
          /\ UNCHANGED unwinding
       \/ /\ unwinding' = "Exception"
          /\ pc' = Propagate("Exception", "announce")
    /\ UNCHANGED << layout, max_pages, runs_left, page, i, paintings,
                    start_page, start_item, appraisals_list, processed_urls,
                    data, painting_details, appraisal, file, outcome,
                    exit_code, fetch_count, oracle_count, save_arg,
                    save_failures, load_failures, prior, log, call, args, migration >>

\* Lines 793-796: get_painting_details returns None (every failure is caught
\* inside it), or the details with or without a valid image.
GetDetails ==
    /\ pc = "fetch_detail"
    /\ fetch_count' = [fetch_count EXCEPT ![CurrentUrl] = @ + 1]
    /\ \/ /\ AddProcessed(CurrentUrl)
          /\ Continue
       \/ /\ \E n \in {0, 1} :
                painting_details' = [url |-> CurrentUrl, images |-> n]
          /\ pc' = "appraise"
          /\ UNCHANGED << i, appraisal, processed_urls, data >>
    /\ UNCHANGED << layout, max_pages, runs_left, unwinding, page, paintings,
                    start_page, start_item, appraisals_list, file, outcome,
                    exit_code, oracle_count, save_arg, save_failures, load_failures, prior, log, call, args, migration >>

\* Variant: the Appraisal is returned before the oracle's estimate is in it.
ResultWithoutEstimate(u) == [url |-> u, best |-> 0]

\* Lines 566-615: the Appraisal built from the oracle's parsed answer.
ResultOf(u) == [url |-> u, best |-> OracleBest(u)]

\* Lines 799-802 with appraise_painting lines 414-419 and 517-619: no image
\* gives None without an oracle call; otherwise the oracle is invoked and the
\* result is an Appraisal, or None when anything inside failed.
AppraisePainting ==
    /\ pc = "appraise"
    /\ \/ /\ painting_details.images = 0
          /\ AddProcessed(CurrentUrl)
          /\ Continue
          /\ UNCHANGED oracle_count
       \/ /\ painting_details.images > 0
          /\ oracle_count' = [oracle_count EXCEPT ![CurrentUrl] = @ + 1]
          /\ \/ /\ AddProcessed(CurrentUrl)
                /\ Continue
             \/ /\ appraisal' = ResultOf(CurrentUrl)
                /\ pc' = "got_appraisal"
                /\ UNCHANGED << i, painting_details, processed_urls, data >>
    /\ log' = IF pc' = "got_appraisal"
              THEN [log EXCEPT !.appraised = @ \cup {CurrentUrl}]
              ELSE log
    /\ UNCHANGED << layout, max_pages, runs_left, unwinding, page, paintings,
                    start_page, start_item, appraisals_list, file, outcome,
                    exit_code, fetch_count, save_arg, save_failures,
                    load_failures, prior, call, args, migration >>

\* Lines 803-811: the separator print (which can raise like any print) and
\* the local best_estimate.
AfterAppraisal ==
    /\ pc = "got_appraisal"
    /\ \/ pc' = "append"
       \/ pc' = Propagate("Exception", "got_appraisal")
    /\ UNCHANGED << layout, max_pages, runs_left, unwinding, page, i, paintings,
                    start_page, start_item, appraisals_list, processed_urls,
                    data, painting_details, appraisal, file, outcome,
                    exit_code, fetch_count, oracle_count, save_arg,
                    save_failures, load_failures, prior, log, call, args, migration >>

\* Line 814: appraisals_list.append(appraisal)
AppendAppraisal ==
    /\ pc = "append"
    /\ appraisals_list' = Append(appraisals_list, appraisal)
    /\ pc' = "mark"
    /\ UNCHANGED << layout, max_pages, runs_left, unwinding, page, i, paintings,
                    start_page, start_item, processed_urls, data,
                    painting_details, appraisal, file, outcome, exit_code,
                    fetch_count, oracle_count, save_arg, save_failures, load_failures, prior, log, call, args, migration >>

\* Line 815: processed_urls.add(painting_basic.url)
Mark ==
    /\ pc = "mark"
    /\ AddProcessed(CurrentUrl)
    /\ pc' = "update"
    /\ UNCHANGED << layout, max_pages, runs_left, unwinding, page, i, paintings,
                    start_page, start_item, appraisals_list,
                    painting_details, appraisal, file, outcome, exit_code,
                    fetch_count, oracle_count, save_arg, save_failures, load_failures, prior, log, call, args, migration >>

\* Lines 818-823: data.update(...)
Update ==
    /\ pc = "update"
    /\ DataUpdate(page, i + 1)
    /\ pc' = "batch_save"
    /\ UNCHANGED << layout, max_pages, runs_left, unwinding, page, i, paintings,
                    start_page, start_item, appraisals_list, processed_urls,
                    painting_details, appraisal, file, outcome, exit_code,
                    fetch_count, oracle_count, save_arg, save_failures, load_failures, prior, log, call, args, migration >>

\* Lines 826-827: the checkpoint after every fifth index of the page.
BatchSave ==
    /\ pc = "batch_save"
    /\ IF (i + 1) % SaveEvery = 0
       THEN save_appraisals /\ pc' = SaveReturnsTo("sleep", SaveFailed)
       ELSE UNCHANGED << file, save_arg, save_failures >> /\ pc' = "sleep"
    /\ UNCHANGED << layout, max_pages, runs_left, unwinding, page, i, paintings,
                    start_page, start_item, appraisals_list, processed_urls,
                    data, painting_details, appraisal, outcome, exit_code,
                    fetch_count, oracle_count, load_failures,
                    prior, log, call, args, migration >>

\* Line 830: time.sleep(delay); raises ValueError for a negative delay.
Sleep ==
    /\ pc = "sleep"
    /\ \/ Continue
       \/ /\ pc' = Propagate("Exception", "sleep")
          /\ UNCHANGED << i, painting_details, appraisal >>
    /\ UNCHANGED << layout, max_pages, runs_left, unwinding, page, paintings,
                    start_page, start_item, appraisals_list, processed_urls,
                    data, file, outcome, exit_code, fetch_count, oracle_count,
                    save_arg, save_failures, load_failures, prior, log, call, args, migration >>

\* Lines 832-841: "except Exception": mark the URL and update data.
ExceptionHandler ==
    /\ pc = "exc_handler"
    /\ processed_urls' = processed_urls \cup {CurrentUrl}
    /\ data' = [processed_urls |-> processed_urls \cup {CurrentUrl},
                last_page |-> page, last_item |-> i + 1, linked |-> TRUE]
    /\ log' = [log EXCEPT !.raised = @ \cup {CurrentUrl}]
    /\ pc' = "exc_save"
    /\ UNCHANGED << layout, max_pages, runs_left, unwinding, page, i, paintings,
                    start_page, start_item, appraisals_list,
                    painting_details, appraisal, file, outcome, exit_code,
                    fetch_count, oracle_count, save_arg, save_failures,
                    load_failures, prior, call, args, migration >>

\* Lines 842-843: save after the error, then continue.
ExceptionSave ==
    /\ pc = "exc_save"
    /\ save_appraisals
    /\ i' = i + 1
    /\ painting_details' = NoDetails
    /\ appraisal' = NoAppraisal
    /\ pc' = SaveReturnsTo("item_loop", SaveFailed)
    /\ UNCHANGED << layout, max_pages, runs_left, unwinding, page, paintings,
                    start_page, start_item, appraisals_list, processed_urls,
                    data, outcome, exit_code, fetch_count, oracle_count, load_failures,
                    prior, log, call, args, migration >>

\* Line 846 and the end of the item loop.
PageEnd ==
    /\ pc = "item_loop"
    /\ i >= Len(paintings)
    /\ start_item' = 0
    /\ pc' = "page_update"
    /\ UNCHANGED << layout, max_pages, runs_left, unwinding, page, i, paintings,
                    start_page, appraisals_list, processed_urls, data,
                    painting_details, appraisal, file, outcome, exit_code,
                    fetch_count, oracle_count, save_arg, save_failures, load_failures, prior, log, call, args, migration >>

\* Lines 849-854.
PageUpdate ==
    /\ pc = "page_update"
    /\ DataUpdate(page + 1, 0)
    /\ pc' = "page_save"
    /\ UNCHANGED << layout, max_pages, runs_left, unwinding, page, i, paintings,
                    start_page, start_item, appraisals_list, processed_urls,
                    painting_details, appraisal, file, outcome, exit_code,
                    fetch_count, oracle_count, save_arg, save_failures, load_failures, prior, log, call, args, migration >>

\* Line 855.
PageSave ==
    /\ pc = "page_save"
    /\ save_appraisals
    /\ pc' = SaveReturnsTo("page_sleep", SaveFailed)
    /\ UNCHANGED << layout, max_pages, runs_left, unwinding, page, i, paintings,
                    start_page, start_item, appraisals_list, processed_urls,
                    data, painting_details, appraisal, outcome, exit_code,
                    fetch_count, oracle_count, load_failures,
                    prior, log, call, args, migration >>

\* Variant: the page loop does not advance.
NextPageSame(p) == p

\* Line 768: the next value of "for page in range(start_page, max_pages + 1)".
NextPage(p) == p + 1

\* Line 858: time.sleep(2), then the next page.
PageSleep ==
    /\ pc = "page_sleep"
    /\ page' = NextPage(page)
    /\ pc' = "page_loop"
    /\ UNCHANGED << layout, max_pages, runs_left, unwinding, i, paintings,
                    start_page, start_item, appraisals_list, processed_urls,
                    data, painting_details, appraisal, file, outcome,
                    exit_code, fetch_count, oracle_count, save_arg,
                    save_failures, load_failures, prior, log, call, args, migration >>

\* KeyboardInterrupt delivered while the program is inside the outer try
\* (between two statements, or inside a blocking call, which then has no
\* effect).  No handler of run_appraisal catches it.
Interrupt ==
    /\ pc \in TryPcs
    /\ unwinding' = "KeyboardInterrupt"
    /\ pc' = Propagate("KeyboardInterrupt", pc)
    /\ UNCHANGED << layout, max_pages, runs_left, page, i, paintings,
                    start_page, start_item, appraisals_list, processed_urls,
                    data, painting_details, appraisal, file, outcome,
                    exit_code, fetch_count, oracle_count, save_arg,
                    save_failures, load_failures, prior, log, call, args, migration >>

\* Lines 859-861: "finally: self.save_appraisals(data, appraisals_file)";
\* afterwards the propagating exception, if any, leaves run_appraisal.
FinalSave ==
    /\ pc = "finally"
    /\ save_appraisals
    /\ pc' = SaveReturnsTo(IF unwinding = "none" THEN "sort" ELSE "main_except",
                           SaveFailed)
    /\ UNCHANGED << layout, max_pages, runs_left, unwinding, page, i, paintings,
                    start_page, start_item, appraisals_list, processed_urls,
                    data, painting_details, appraisal, outcome, exit_code,
                    fetch_count, oracle_count, load_failures,
                    prior, log, call, args, migration >>

\* What main reports for an exception leaving run_appraisal (lines 1073-1077):
\* KeyboardInterrupt is reported and the process ends normally; any other
\* exception is an unexpected error and sys.exit(1).
MainOutcome(exc) ==
    IF exc = "KeyboardInterrupt"
    THEN [outcome |-> "interrupted", exit_code |-> 0]
    ELSE [outcome |-> "error", exit_code |-> 1]

\* Lines 863-866 and main line 1072: sort in place, return, report.
SortAndReturn ==
    /\ pc = "sort"
    /\ appraisals_list' = SortDesc(appraisals_list)
    /\ outcome' = "completed"
    /\ exit_code' = 0
    /\ pc' = "exited"
    /\ UNCHANGED << layout, max_pages, runs_left, unwinding, page, i, paintings,
                    start_page, start_item, processed_urls, data,
                    painting_details, appraisal, file, fetch_count,
                    oracle_count, save_arg, save_failures, load_failures, prior, log, call, args, migration >>

\* main lines 1073-1080.
MainExcept ==
    /\ pc = "main_except"
    /\ outcome' = MainOutcome(unwinding).outcome
    /\ exit_code' = MainOutcome(unwinding).exit_code
    /\ pc' = "exited"
    /\ UNCHANGED << layout, max_pages, runs_left, unwinding, page, i, paintings,
                    start_page, start_item, appraisals_list, processed_urls,
                    data, painting_details, appraisal, file, fetch_count,
                    oracle_count, save_arg, save_failures, load_failures, prior, log, call, args, migration >>

Next ==
    \/ StartRun
    \/ CeilingReached
    \/ FetchListing
    \/ NextItem
    \/ Announce
    \/ GetDetails
    \/ AppraisePainting
    \/ AfterAppraisal
    \/ AppendAppraisal
    \/ Mark
    \/ Update
    \/ BatchSave
    \/ Sleep
    \/ ExceptionHandler
    \/ ExceptionSave
    \/ PageEnd
    \/ PageUpdate
    \/ PageSave
    \/ PageSleep
    \/ Interrupt
    \/ FinalSave
    \/ SortAndReturn
    \/ MainExcept

Spec == Init /\ [][Next]_vars

SpecLong == InitLong /\ [][Next]_vars

\* ------------------------------------------------- a run from a cursor
\* run_appraisal on a loaded state that carries a cursor.  load_appraisals
\* itself always returns the cursor (0, 0); lines 764-765 and 779 are written
\* for any last_page and last_item, and here they run on each of them.
MaxLastItem == 2

StartRunAtCursor ==
    /\ pc = "idle"
    /\ runs_left > 0
    /\ runs_left' = runs_left - 1
    /\ \E lp \in 0..MaxPages, li \in 0..MaxLastItem :
         Begin([EmptyState EXCEPT !.last_page = lp, !.last_item = li])
    /\ args' = BatchArgs
    /\ i' = 0
    /\ paintings' = << >>
    /\ painting_details' = NoDetails
    /\ appraisal' = NoAppraisal
    /\ unwinding' = "none"
    /\ outcome' = "none"
    /\ exit_code' = 0
    /\ fetch_count' = ZeroCount
    /\ oracle_count' = ZeroCount
    /\ save_arg' = NoSave
    /\ prior' = NoPrior
    /\ log' = NoLog
    /\ pc' = "page_loop"
    /\ UNCHANGED << layout, max_pages, file, save_failures, load_failures,
                    call, migration >>

NextCursor ==
    \/ StartRunAtCursor
    \/ CeilingReached
    \/ FetchListing
    \/ NextItem
    \/ Announce
    \/ GetDetails
    \/ AppraisePainting
    \/ AfterAppraisal
    \/ AppendAppraisal
    \/ Mark
    \/ Update
    \/ BatchSave
    \/ Sleep
    \/ ExceptionHandler
    \/ ExceptionSave
    \/ PageEnd
    \/ PageUpdate
    \/ PageSave
    \/ PageSleep
    \/ Interrupt
    \/ FinalSave
    \/ SortAndReturn
    \/ MainExcept

InitCursor == InitWith(LayoutPages, MaxPages, 1)

SpecCursor == InitCursor /\ [][NextCursor]_vars

\* The program is one sequential thread and every call it makes returns or
\* fails in finite time: some step is always eventually taken.
SpecFair == InitCursor /\ [][NextCursor]_vars /\ WF_vars(NextCursor)

\* ------------------------------------------- main without run_appraisal
\* A new process: nothing in memory, nothing done yet.
NewProcess ==
    /\ unwinding' = "none"
    /\ page' = 0
    /\ i' = 0
    /\ paintings' = << >>
    /\ start_page' = 0
    /\ start_item' = 0
    /\ appraisals_list' = << >>
    /\ processed_urls' = {}
    /\ data' = [processed_urls |-> {}, last_page |-> 0, last_item |-> 0,
                linked |-> FALSE]
    /\ painting_details' = NoDetails
    /\ appraisal' = NoAppraisal
    /\ fetch_count' = ZeroCount
    /\ oracle_count' = ZeroCount
    /\ save_arg' = NoSave
    /\ prior' = NoPrior
    /\ log' = NoLog

\* main lines 1043-1049: the key is missing; sys.exit(1) before the appraiser
\* is constructed.
MainMissingKey ==
    /\ pc \in {"idle", "exited"}
    /\ runs_left > 0
    /\ runs_left' = runs_left - 1
    /\ \E a \in Args : Mode(a) = "exit" /\ args' = a
    /\ NewProcess
    /\ outcome' = "no credential"
    /\ exit_code' = 1
    /\ pc' = "exited"
    /\ UNCHANGED << layout, max_pages, file, save_failures, load_failures,
                    call, migration >>

\* main lines 1063-1067 with --url: appraise_single_url is entered.
MainSingleUrl ==
    /\ pc \in {"idle", "exited"}
    /\ runs_left > 0
    /\ runs_left' = runs_left - 1
    /\ \E a \in Args : Mode(a) = "single" /\ args' = a
    /\ NewProcess
    /\ outcome' = "none"
    /\ exit_code' = 0
    /\ pc' = "single_detail"
    /\ UNCHANGED << layout, max_pages, file, save_failures, load_failures,
                    call, migration >>

SinglePcs == {"single_detail", "single_appraise", "single_return"}

\* appraise_single_url lines 1006-1008.
SingleDetails ==
    /\ pc = "single_detail"
    /\ fetch_count' = [fetch_count EXCEPT ![args.url] = @ + 1]
    /\ \/ /\ pc' = "single_return"
          /\ UNCHANGED painting_details
       \/ /\ \E n \in {0, 1} :
                painting_details' = [url |-> args.url, images |-> n]
          /\ pc' = "single_appraise"
    /\ UNCHANGED << layout, max_pages, runs_left, unwinding, page, i, paintings,
                    start_page, start_item, appraisals_list, processed_urls,
                    data, appraisal, file, outcome, exit_code, oracle_count,
                    save_arg, save_failures, load_failures, prior, log, call,
                    args, migration >>

\* appraise_single_url lines 1011-1015.
SingleAppraise ==
    /\ pc = "single_appraise"
    /\ \/ /\ painting_details.images = 0
          /\ UNCHANGED << oracle_count, appraisal, appraisals_list, log >>
       \/ /\ painting_details.images > 0
          /\ oracle_count' = [oracle_count EXCEPT ![args.url] = @ + 1]
          /\ \/ UNCHANGED << appraisal, appraisals_list, log >>
             \/ /\ appraisal' = ResultOf(args.url)
                /\ appraisals_list' = << ResultOf(args.url) >>
                /\ log' = [log EXCEPT !.appraised = @ \cup {args.url}]
    /\ pc' = "single_return"
    /\ UNCHANGED << layout, max_pages, runs_left, unwinding, page, i, paintings,
                    start_page, start_item, processed_urls, data,
                    painting_details, file, outcome, exit_code, fetch_count,
                    save_arg, save_failures, load_failures, prior, call,
                    args, migration >>

\* main lines 1067-1068: results bound, the completion message printed.
SingleReturn ==
    /\ pc = "single_return"
    /\ outcome' = "completed"
    /\ exit_code' = 0
    /\ pc' = "exited"
    /\ UNCHANGED << layout, max_pages, runs_left, unwinding, page, i, paintings,
                    start_page, start_item, appraisals_list, processed_urls,
                    data, painting_details, appraisal, file, fetch_count,
                    oracle_count, save_arg, save_failures, load_failures,
                    prior, log, call, args, migration >>

\* KeyboardInterrupt inside appraise_single_url: there is no finally clause
\* on the way to main's handler (1073-1074).
SingleInterrupt ==
    /\ pc \in SinglePcs
    /\ unwinding' = "KeyboardInterrupt"
    /\ pc' = "main_except"
    /\ UNCHANGED << layout, max_pages, runs_left, page, i, paintings,
                    start_page, start_item, appraisals_list, processed_urls,
                    data, painting_details, appraisal, file, outcome,
                    exit_code, fetch_count, oracle_count, save_arg,
                    save_failures, load_failures, prior, log, call, args, migration >>

NextMain ==
    \/ MainMissingKey
    \/ MainSingleUrl
    \/ SingleDetails
    \/ SingleAppraise
    \/ SingleReturn
    \/ SingleInterrupt
    \/ StartRun
    \/ CeilingReached
    \/ FetchListing
    \/ NextItem
    \/ Announce
    \/ GetDetails
    \/ AppraisePainting
    \/ AfterAppraisal
    \/ AppendAppraisal
    \/ Mark
    \/ Update
    \/ BatchSave
    \/ Sleep
    \/ ExceptionHandler
    \/ ExceptionSave
    \/ PageEnd
    \/ PageUpdate
    \/ PageSave
    \/ PageSleep
    \/ Interrupt
    \/ FinalSave
    \/ SortAndReturn
    \/ MainExcept

\* The program is started up to MaxRuns times, with any environment and
\* command line, against one page of the listing.
InitMain == InitWith(LayoutPages, 1, MaxRuns)

SpecMain == InitMain /\ [][NextMain]_vars

\* ================================================== migrate_to_paintings
MaxMigrations == 2

\* progress.json as an earlier version left it: each of the four keys may
\* be missing.
OldObjects ==
    [kind : {"object"},
     valuable_paintings : { << >>, << << "p1" >> >> },
     processed_urls : { << >>, << << "u1", "u2" >> >> },
     last_page : { << >>, << 2 >> },
     last_item : { << >>, << 3 >> }]

\* Some earlier content of a file that the migration does not read.
OtherContent == [kind |-> "other"]

\* The directories the script is started in.
Directories ==
    [progress : OldObjects \cup {Absent, [kind |-> "garbage"],
                                 [kind |-> "array"]},
     progress_backup : {Absent, OtherContent},
     appraisals : {Absent, OtherContent},
     valuable : {Absent, OtherContent},
     valuable_backup : {Absent},
     calls : {0},
     last : {"none"}]

\* dict.get(key, default)
Get(entry, default) == IF entry = << >> THEN default ELSE entry[1]

\* Variant: the cursor is not carried over.
NewDataNoCursor(old) ==
    [kind |-> "object",
     paintings |-> Get(old.valuable_paintings, << >>),
     processed_urls |-> Get(old.processed_urls, << >>),
     last_page |-> 0,
     last_item |-> 0]

\* Lines 20-31: the new format built from the old object.
NewData(old) ==
    [kind |-> "object",
     paintings |-> Get(old.valuable_paintings, << >>),
     processed_urls |-> Get(old.processed_urls, << >>),
     last_page |-> Get(old.last_page, 0),
     last_item |-> Get(old.last_item, 0)]

\* Lines 44-49: os.rename of progress.json, and of valuable_paintings.json
\* when it exists, to their backups (an existing backup is replaced).
Renamed(d) ==
    [d EXCEPT !.progress = Absent,
              !.progress_backup = d.progress,
              !.valuable = IF d.valuable = Absent THEN @ ELSE Absent,
              !.valuable_backup = IF d.valuable = Absent THEN @ ELSE d.valuable]

\* migrate_progress_to_appraisals (lines 6-53) on the directory d:
\*  - no progress.json: return at line 12;
\*  - json.load raises (17), or old_data has no .get (20): caught at 52,
\*    before line 34 is reached;
\*  - otherwise appraisals.json is written (34-35) and the old files renamed.
migrate_progress_to_appraisals(d) ==
    IF d.progress = Absent
    THEN [d EXCEPT !.last = "nothing to migrate"]
    ELSE IF d.progress.kind # "object"
    THEN [d EXCEPT !.last = "error"]
    ELSE [Renamed([d EXCEPT !.appraisals = NewData(d.progress)])
             EXCEPT !.last = "complete"]

\* The script is run.
Migrate ==
    /\ migration.calls < MaxMigrations
    /\ migration' = [migrate_progress_to_appraisals(migration)
                        EXCEPT !.calls = @ + 1]
    /\ UNCHANGED << layout, max_pages, runs_left, pc, unwinding, page, i,
                    paintings, start_page, start_item, appraisals_list,
                    processed_urls, data, painting_details, appraisal, file,
                    outcome, exit_code, fetch_count, oracle_count, save_arg,
                    save_failures, load_failures, prior, log, call, args >>

NextMigrate == Migrate

InitMigrate ==
    /\ InitRun(LayoutBatch, MaxPages, 0)
    /\ migration \in Directories

SpecMigrate == InitMigrate /\ [][NextMigrate]_vars

\* ============================================================ helper calls
\* The helper functions of PaintingAppraiser, called directly on inputs drawn
\* from small sets.  The run state above stays as constructed.
runvars == << layout, max_pages, runs_left, pc, unwinding, page, i, paintings,
              start_page, start_item, appraisals_list, processed_urls, data,
              painting_details, appraisal, file, outcome, exit_code,
              fetch_count, oracle_count, save_arg, save_failures,
              load_failures, prior, log, args, migration >>

\* All sequences over S of length at most n.
SeqUpTo(S, n) == UNION { [1..k -> S] : k \in 0..n }

\* ------------------------------------------------- _is_valid_product_image
\* An image URL is a sequence of segments; "" is the sequence << >>.  The
\* patterns the code looks for lie within one segment.
ServerSegment == "https://shopgoodwillimages.azureedge.net/production/"
Segments == { ServerSegment, "logo", "NAV", "icon", ".svg", ".png", ".JPG",
              ".jpg", "/items/", "12345", ".txt" }

\* str.lower() of a segment.
Lower(seg) ==
    CASE seg = "NAV" -> "nav"
      [] seg = ".JPG" -> ".jpg"
      [] OTHER -> seg

\* "pattern in url_lower"
Contains(url, pattern) ==
    \E k \in 1..Len(url) :
        \/ Lower(url[k]) = pattern
        \/ /\ url[k] = ServerSegment
           /\ pattern \in {"shopgoodwillimages.azureedge.net", "product"}

exclude_patterns ==
    { "logo", "icon", "banner", "header", "footer", "nav", "menu", "button",
      "arrow", "star", "heart", "cart", "search", "facebook", "twitter",
      "instagram", "social", "general/logo.svg", "sprites", "ui/" }

image_formats == { ".jpg", ".jpeg", ".png", ".gif", ".webp", ".svg" }

good_patterns == { "/item/", "product", "listing", "auction", "/items/" }

\* Variant: a URL without a product-looking pattern is rejected.
is_valid_product_imageStrict(image_url) ==
    /\ image_url # << >>
    /\ \A pattern \in exclude_patterns : ~Contains(image_url, pattern)
    /\ \E ext \in image_formats : Contains(image_url, ext)
    /\ \E pattern \in good_patterns : Contains(image_url, pattern)

\* Lines 139-181, branch by branch.
is_valid_product_image(image_url) ==
    IF image_url = << >> THEN FALSE
    ELSE IF \E pattern \in exclude_patterns : Contains(image_url, pattern)
    THEN FALSE
    ELSE IF ~(\E ext \in image_formats : Contains(image_url, ext))
    THEN FALSE
    ELSE IF /\ Contains(image_url, "shopgoodwillimages.azureedge.net")
            /\ Contains(image_url, "/items/")
    THEN TRUE
    ELSE IF \E pattern \in good_patterns : Contains(image_url, pattern)
    THEN TRUE
    ELSE TRUE

\* get_painting_details lines 375-391: the candidates that pass the test, in
\* their order (blank paths are dropped before the test).
RetainedImages(candidates) ==
    SelectSeq(candidates, LAMBDA u : u # << >> /\ is_valid_product_image(u))

\* image_url = None (line 368); the empty URL stands for it.
NoImage == << >>

\* Variant: every valid image becomes the primary one in turn.
RECURSIVE PrimaryImageLast(_)
PrimaryImageLast(candidates) ==
    IF candidates = << >> THEN NoImage
    ELSE LET u == candidates[Len(candidates)] IN
         IF u # << >> /\ is_valid_product_image(u) THEN u
         ELSE PrimaryImageLast(SubSeq(candidates, 1, Len(candidates) - 1))

\* Lines 368 and 385-387: image_url is set by the first candidate that passes
\* the test and is left alone afterwards.
RECURSIVE PrimaryImage(_)
PrimaryImage(candidates) ==
    IF candidates = << >> THEN NoImage
    ELSE LET u == Head(candidates) IN
         IF u # << >> /\ is_valid_product_image(u) THEN u
         ELSE PrimaryImage(Tail(candidates))

\* ------------------------------------------------------ _get_numeric_value
\* Strings are sequences of characters over a small alphabet; numbers are
\* counted in units of 10^-(MaxStrLen - 1), the most decimals a string with a
\* point can have, so that every parsed value is an integer.
MaxStrLen == 4
Chars == { "$", ",", ".", "-", "1", "5", "x" }
Digits == { "1", "5" }

RECURSIVE Pow10(_)
Pow10(n) == IF n = 0 THEN 1 ELSE 10 * Pow10(n - 1)

Unit == Pow10(MaxStrLen - 1)

DigitValue(c) == IF c = "1" THEN 1 ELSE 5

RECURSIVE NumberOf(_)
NumberOf(ds) ==
    IF ds = << >> THEN 0
    ELSE 10 * NumberOf(SubSeq(ds, 1, Len(ds) - 1)) + DigitValue(ds[Len(ds)])

\* Variant: nothing is removed.
StrippedNothing(str) == str

\* value.replace('$', '').replace(',', '')
Stripped(str) == SelectSeq(str, LAMBDA c : c \notin {"$", ","})

\* float(str) on this alphabet: an optional sign, digits with at most one
\* point and at least one digit; anything else raises ValueError.
Float(str) ==
    LET neg == str # << >> /\ str[1] = "-"
        body == IF neg THEN Tail(str) ELSE str
        dots == { k \in 1..Len(body) : body[k] = "." }
        wellformed == /\ \A k \in 1..Len(body) : body[k] \in Digits \cup {"."}
                      /\ Cardinality(dots) <= 1
                      /\ \E k \in 1..Len(body) : body[k] \in Digits
        p == IF dots = {} THEN Len(body) + 1 ELSE CHOOSE k \in dots : TRUE
        whole == SubSeq(body, 1, p - 1)
        frac == SubSeq(body, p + 1, Len(body))
        magnitude == NumberOf(whole) * Unit
                       + NumberOf(frac) * Pow10(MaxStrLen - 1 - Len(frac))
    IN  IF wellformed
        THEN [error |-> FALSE, value |-> IF neg THEN 0 - magnitude ELSE magnitude]
        ELSE [error |-> TRUE, value |-> 0]

\* The inputs: a number, a string, or anything else (None, a list, ...).
Number(n) == [type |-> "number", n |-> n, s |-> << >>]
String(str) == [type |-> "str", n |-> 0, s |-> str]
OtherValue == [type |-> "other", n |-> 0, s |-> << >>]

\* Lines 914-923.
get_numeric_value(value) ==
    IF value.type = "number" THEN value.n
    ELSE IF value.type = "str"
    THEN LET r == Float(Stripped(value.s)) IN IF r.error THEN 0 ELSE r.value
    ELSE 0

\* -------------------------------------------------------- appraise_painting
\* self.max_images is None
NoLimit == -1
MaxRequests == 2
ImageNames == { <<"/items/", "12345", ".jpg">>, <<"/items/", "12345", ".png">> }

\* Variant: the primary image is used without testing that it is set.
AvailableImagesUnchecked(info) ==
    IF info.image_urls # << >> THEN info.image_urls ELSE << info.image_url >>

\* Line 415: all the images, else the primary image, else nothing.  The
\* unset primary image (None) is << >>.
AvailableImages(info) ==
    IF info.image_urls # << >> THEN info.image_urls
    ELSE IF info.image_url # << >> THEN << info.image_url >>
    ELSE << >>

\* Lines 421-424.
LimitImages(images, max_images) ==
    IF max_images # NoLimit /\ Len(images) > max_images
    THEN SubSeq(images, 1, max_images)
    ELSE images

\* A direct call of _is_valid_product_image.
CallIsValidProductImage ==
    /\ call.fn = "none"
    /\ \E url \in SeqUpTo(Segments, 3) :
         call' = [fn |-> "_is_valid_product_image", arg |-> url,
                  ret |-> is_valid_product_image(url),
                  total_requests |-> call.total_requests,
                  total_tokens |-> call.total_tokens,
                  total_input_tokens |-> call.total_input_tokens]
    /\ UNCHANGED runvars

\* The image loop of get_painting_details on a list of candidate URLs.
CallRetainedImages ==
    /\ call.fn = "none"
    /\ \E candidates \in SeqUpTo({ << >>, <<"/", "logo", ".svg">>,
                                  <<"NAV", "icon", ".png">>,
                                  <<"/items/", "12345", ".jpg">>,
                                  <<"12345", ".JPG">> }, 3) :
         call' = [fn |-> "get_painting_details", arg |-> candidates,
                  ret |-> RetainedImages(candidates),
                  primary |-> PrimaryImage(candidates),
                  total_requests |-> call.total_requests,
                  total_tokens |-> call.total_tokens,
                  total_input_tokens |-> call.total_input_tokens]
    /\ UNCHANGED runvars

\* A direct call of _get_numeric_value.
CallGetNumericValue ==
    /\ call.fn = "none"
    /\ \E value \in { String(str) : str \in SeqUpTo(Chars, MaxStrLen) }
                      \cup { Number(n) : n \in {0, 15 * Unit, 0 - Unit} }
                      \cup { OtherValue } :
         call' = [fn |-> "_get_numeric_value", arg |-> value,
                  ret |-> get_numeric_value(value),
                  total_requests |-> call.total_requests,
                  total_tokens |-> call.total_tokens,
                  total_input_tokens |-> call.total_input_tokens]
    /\ UNCHANGED runvars

\* response.usage as reported by the oracle (lines 539-541).
Usages == { [input_tokens |-> 0, total_tokens |-> 0],
            [input_tokens |-> 3, total_tokens |-> 7] }

\* What the oracle call brings: a response with usage data, one without, a
\* response with usage data whose parsed answer is missing (the Appraisal
\* cannot be built, lines 566-615), or an exception raised by the call.
Responses == { "usage", "no usage", "usage, no answer", "error" }

\* "if usage:" (line 538)
CarriesUsage(response) == response \in { "usage", "usage, no answer" }

\* Variant: the counters are set to the figures of the latest response.
AddUsageOverwrites(c, usage) ==
    [total_requests |-> c.total_requests + 1,
     total_tokens |-> usage.total_tokens,
     total_input_tokens |-> usage.input_tokens]

\* Lines 555-560: the running totals after a response with usage data.
AddUsage(c, usage) ==
    [total_requests |-> c.total_requests + 1,
     total_tokens |-> c.total_tokens + usage.total_tokens,
     total_input_tokens |-> c.total_input_tokens + usage.input_tokens]

\* A direct call of appraise_painting (lines 404-619): without an image it
\* returns None at once; otherwise the oracle is invoked with the (limited)
\* images and answers with usage data, without, or fails; the counters are
\* raised when the response carries usage data (lines 537-560).
CallAppraisePainting ==
    /\ call.fn = "none"
    /\ call.total_requests < MaxRequests
    /\ \E info \in [image_urls : SeqUpTo(ImageNames, 2),
                    image_url : ImageNames \cup {<< >>}],
          max_images \in {NoLimit, 0, 1, 2},
          response \in Responses,
          usage \in Usages :
         LET images == AvailableImages(info)
             after == IF images # << >> /\ CarriesUsage(response)
                      THEN AddUsage(call, usage)
                      ELSE call
         IN
         call' = [fn |-> "appraise_painting",
                  arg |-> [info |-> info, max_images |-> max_images],
                  oracle |-> (images # << >>),
                  response |-> IF images = << >> THEN "none" ELSE response,
                  usage |-> usage,
                  sent |-> IF images = << >> THEN << >>
                           ELSE LimitImages(images, max_images),
                  ret |-> IF images # << >> /\ response \in {"usage", "no usage"}
                          THEN "Appraisal" ELSE "None",
                  total_requests |-> after.total_requests,
                  total_tokens |-> after.total_tokens,
                  total_input_tokens |-> after.total_input_tokens]
    /\ UNCHANGED runvars

\* The helper returns; the appraiser keeps its counters.
ReturnFromCall ==
    /\ call.fn # "none"
    /\ call' = [fn |-> "none", total_requests |-> call.total_requests,
                total_tokens |-> call.total_tokens,
                total_input_tokens |-> call.total_input_tokens]
    /\ UNCHANGED runvars

NextCalls ==
    \/ CallIsValidProductImage
    \/ CallRetainedImages
    \/ CallGetNumericValue
    \/ CallAppraisePainting
    \/ ReturnFromCall

\* A constructed appraiser on which the helpers are called.
InitCalls == InitWith(LayoutBatch, MaxPages, 0)

SpecCalls == InitCalls /\ [][NextCalls]_vars

\* ================================================================ claims
\* Valuations the durable artifact holds (none when it is absent or unreadable).
Durable == IF file.kind = "ok" THEN Range(file.rows) ELSE {}

\* No two entries of a sequence of Valuations (or rows) have the same URL.
NoDuplicateUrl(s) ==
    \A j \in 1..Len(s) : \A k \in 1..Len(s) : s[j].url = s[k].url => j = k

\* C1: idempotent resumption.  A run that follows an interrupted run whose
\* final save wrote the file knows every URL the interrupted run had processed
\* and every Valuation it had collected, holds no duplicate Valuation, and
\* makes no detail fetch and no oracle call for a URL processed before the
\* interruption.
C1_IdempotentResumption ==
    (prior.interrupted /\ pc \notin {"idle", "exited"}) =>
        /\ prior.processed_urls \subseteq processed_urls
        /\ prior.keys \subseteq Keys(appraisals_list)
        /\ NoDuplicateUrl(appraisals_list)
        /\ \A u \in prior.processed_urls :
              fetch_count[u] = 0 /\ oracle_count[u] = 0

\* C2: round trip.  When the file is the one save_appraisals has just written
\* for the current state of an undisturbed run, load_appraisals returns the processed-URL set that
\* was handed to the save and the same Valuations (in any order).
C2_RoundTrip ==
    (save_arg.called /\ save_arg = SaveArgument /\ unwinding = "none"
        /\ appraisals_list # << >> /\ file = WriteCsv(appraisals_list)) =>
        /\ load_appraisals(file, TRUE).processed_urls = save_arg.processed_urls
        /\ Range(load_appraisals(file, TRUE).appraisals) = Range(appraisals_list)

\* C3: dedup invariant.  At every item boundary, at every save and at Done
\* there are at least as many processed URLs as Valuations, and the URL of
\* every Valuation is in the processed set.
C3_DedupInvariant ==
    (pc \in {"item_loop", "exc_save", "page_save", "finally", "sort", "exited"}
       \/ (pc = "batch_save" /\ (i + 1) % SaveEvery = 0)) =>
        /\ Cardinality(processed_urls) >= Len(appraisals_list)
        /\ UrlsOf(appraisals_list) \subseteq processed_urls

\* C4: at most one Valuation per URL, in the result sequence and in the
\* durable artifact, in every reachable state.
C4_OneValuationPerUrl ==
    /\ NoDuplicateUrl(appraisals_list)
    /\ NoDuplicateUrl(file.rows)

\* C4 witness: a later run has passed the repeated entry of the five-item
\* page while holding a Valuation for the repeated URL and one for another.
C4_Witness ==
    /\ layout = LayoutBatch
    /\ runs_left < MaxRuns - 1
    /\ pc = "item_loop"
    /\ i = 4
    /\ {1, 2} \subseteq UrlsOf(appraisals_list)

\* C5: no loss of collected Valuations.  Whatever failed earlier (a fetch, the
\* oracle, the load, a cancellation), no step whose saves all completed removes
\* a Valuation from the durable artifact, and no step of a run removes one from
\* the in-memory sequence.
C5_NoLoss ==
    [][ save_failures' = 0 =>
          /\ Durable \subseteq Durable'
          /\ (pc \notin {"idle", "exited"}) =>
                Keys(appraisals_list) \subseteq Keys(appraisals_list') ]_vars

\* C6: dedup skip.  The step taken at an item whose URL is already processed
\* fetches nothing, calls no oracle and changes neither the result sequence,
\* the processed set nor the file; and within one run no URL is detail-fetched
\* or appraised more than once.
C6_DedupSkip ==
    [][ /\ (pc = "item_loop" /\ i < Len(paintings)
              /\ CurrentUrl \in processed_urls) =>
              /\ pc' \in {"item_loop", "finally"}
              /\ UNCHANGED << appraisals_list, processed_urls, fetch_count,
                              oracle_count, file >>
        /\ \A u \in URLs : fetch_count'[u] <= 1 /\ oracle_count'[u] <= 1 ]_vars

\* C6 witness: the repeated entry of the five-item page has been skipped
\* after its URL was fetched and appraised once.
C6_Witness ==
    /\ layout = LayoutBatch
    /\ pc = "item_loop"
    /\ i = 4
    /\ fetch_count[1] = 1
    /\ oracle_count[1] = 1

\* C7: processed regardless of outcome.  At every item boundary the URL of
\* every item of the page handled so far (from the start index of the page up
\* to the item before index i) is in the processed set.
C7_ProcessedRegardless ==
    pc = "item_loop" =>
        \A k \in 1..Len(paintings) :
            (start_item < k /\ k <= i) => paintings[k] \in processed_urls

\* C7 witness: a boundary at which one handled item has a Valuation and an
\* earlier handled item has none.
C7_Witness ==
    /\ pc = "item_loop"
    /\ i = 2
    /\ paintings[1] \notin UrlsOf(appraisals_list)
    /\ paintings[2] \in UrlsOf(appraisals_list)
    /\ fetch_count[paintings[1]] = 1

C9_CancellationPropagated ==
    /\ unwinding = "KeyboardInterrupt" =>
          pc \in {"finally", "main_except", "exited"}
    /\ pc = "main_except" => save_arg.called
    /\ (pc = "exited" /\ unwinding = "KeyboardInterrupt") =>
          outcome = "interrupted" /\ exit_code = 0
    /\ (pc = "exited" /\ unwinding = "Exception") =>
          outcome = "error" /\ exit_code = 1
    /\ (pc = "exited" /\ unwinding = "none") => outcome = "completed"

\* C9 witness: the interrupt arrived inside the per-item try, the item was
\* not marked processed, and main reported the interruption.
C9_Witness ==
    /\ pc = "exited"
    /\ outcome = "interrupted"
    /\ i < Len(paintings)
    /\ fetch_count[CurrentUrl] = 1
    /\ CurrentUrl \notin processed_urls

\* C10: bounded checkpoint loss.  As long as no save has failed, at most
\* SaveEvery Valuations of the in-memory sequence are missing from the
\* durable artifact.
C10_BoundedLoss ==
    save_failures = 0 =>
        Cardinality(Keys(appraisals_list) \ Durable) <= SaveEvery

\* A sequence of Valuations (or rows) is ordered by non-increasing best.
IsSortedDesc(s) ==
    \A j \in 1..Len(s) : \A k \in 1..Len(s) : j < k => s[j].best >= s[k].best

\* C11: the persisted artifact is a ranked leaderboard.  Every step that
\* writes the file leaves all the Valuations of the state it was given, one
\* row each; and whatever file exists, its rows and the sequence that
\* load_appraisals returns from it are ordered by non-increasing best.
C11_SavedSorted ==
    [][ /\ (file' # file /\ file'.kind = "ok") =>
              /\ Range(file'.rows) = Keys(appraisals_list)
              /\ Len(file'.rows) = Len(appraisals_list)
              /\ save_arg'.keys = Range(file'.rows)
        /\ IsSortedDesc(file'.rows)
        /\ IsSortedDesc(load_appraisals(file', TRUE).appraisals) ]_vars

\* C11 witness: a save has written three Valuations that were not in ranked
\* order in memory.
C11_Witness ==
    /\ Len(appraisals_list) = 3
    /\ ~IsSortedDesc(appraisals_list)
    /\ save_arg.called
    /\ file = WriteCsv(appraisals_list)
    /\ file.rows # Rows(appraisals_list)

\* The position of the Valuation of URL u in s (0 when there is none).
IndexOfUrl(s, u) ==
    IF u \in UrlsOf(s) THEN CHOOSE k \in 1..Len(s) : s[k].url = u ELSE 0

\* t holds the entries of s, each once, ordered by non-increasing best, the
\* entries of equal best in the order they have in s.
IsStableRanking(s, t) ==
    /\ Len(t) = Len(s)
    /\ Range(t) = Range(s)
    /\ IsSortedDesc(t)
    /\ \A j \in 1..Len(s) : \A k \in 1..Len(s) :
          (j < k /\ s[j].best = s[k].best) =>
              IndexOfUrl(t, s[j].url) < IndexOfUrl(t, s[k].url)

\* C12: the result at Done.  During a run the accumulated sequence changes
\* only by appending the Valuation just produced; the step that returns
\* replaces it by its stable ranking, each Valuation exactly once; and a run
\* starts from what load_appraisals returns.
C12_DoneSorted ==
    [][ /\ (pc = "sort" /\ pc' = "exited") =>
              /\ IsStableRanking(appraisals_list, appraisals_list')
              /\ NoDuplicateUrl(appraisals_list')
        /\ (pc \notin {"idle", "exited", "sort"}) =>
              \/ appraisals_list' = appraisals_list
              \/ /\ pc = "append"
                 /\ appraisals_list' = Append(appraisals_list, appraisal)
        /\ (pc \in {"idle", "exited"} /\ pc' = "page_loop") =>
              appraisals_list' \in { load_appraisals(file, TRUE).appraisals,
                                    << >> } ]_vars

\* C12 witness: a completed run returned two Valuations of equal best in
\* their accumulation order, ahead of a lower one accumulated between them.
C12_Witness ==
    /\ pc = "exited"
    /\ outcome = "completed"
    /\ appraisals_list = << [url |-> 1, best |-> 100], [url |-> 3, best |-> 100],
                            [url |-> 2, best |-> 50] >>
    /\ log.appraised = {1, 2, 3}

\* C13: load_appraisals never fails its caller.  Starting a run always
\* enters the page loop with no exception propagating, and when the artifact
\* is absent, does not parse or cannot be read, the run starts from the empty
\* state: no Valuation, no processed URL, cursor (0, 0).
C13_LoadNeverFails ==
    [][ (pc \in {"idle", "exited"} /\ pc' # pc) =>
          /\ pc' = "page_loop"
          /\ unwinding' = "none"
          /\ (file.kind # "ok" \/ load_failures' > load_failures) =>
                /\ appraisals_list' = << >>
                /\ processed_urls' = {}
                /\ data'.processed_urls = {}
                /\ data'.last_page = 0 /\ data'.last_item = 0
                /\ start_page' = 1 /\ start_item' = 0 ]_vars

\* C13 witness: a later run found a file that does not parse and is handling
\* the first item of page 1 from the empty state.
C13_Witness ==
    /\ runs_left < MaxRuns - 1
    /\ file.kind = "corrupt"
    /\ pc = "announce"
    /\ page = 1 /\ i = 0
    /\ appraisals_list = << >>
    /\ processed_urls = {}

\* The statement that follows a save_appraisals call made at position p.
AfterSaveCall(p) ==
    CASE p = "batch_save" -> "sleep"
      [] p = "exc_save" -> "item_loop"
      [] p = "page_save" -> "page_sleep"
      [] p = "finally" -> IF unwinding = "none" THEN "sort" ELSE "main_except"
      [] OTHER -> p

\* The step is a save_appraisals call (a checkpoint that is due, and no
\* interrupt arriving instead).
IsSaveCall ==
    /\ \/ pc \in {"exc_save", "page_save", "finally"}
       \/ pc = "batch_save" /\ (i + 1) % SaveEvery = 0
    /\ unwinding' = unwinding

\* C14: a failure inside save_appraisals costs that checkpoint only.  A save
\* call that does not write the file (I/O failure, or the empty frame) raises
\* nothing: the result sequence, the processed set and the cursor are as
\* before and control is at the statement after the call.
C14_SaveFailureContained ==
    [][ (IsSaveCall /\ SaveFailed) =>
          /\ UNCHANGED << appraisals_list, processed_urls, data, unwinding >>
          /\ pc' = AfterSaveCall(pc) ]_vars

\* C14 witness: the batch checkpoint failed and left a file that no longer
\* loads; the run holds its three Valuations and is at the pause after it.
C14_Witness ==
    /\ pc = "sleep"
    /\ (i + 1) % SaveEvery = 0
    /\ save_failures = 1
    /\ file.kind = "corrupt"
    /\ Len(appraisals_list) = 3
    /\ save_arg = SaveArgument

\* C15: no-image short-circuit.  A call of appraise_painting on a detail with
\* an empty image list and no primary image returns None, does not invoke the
\* oracle and leaves the request and token counters as they were.
C15_NoImageShortCircuit ==
    [][ (/\ call.fn = "none"
         /\ call'.fn = "appraise_painting"
         /\ call'.arg.info.image_urls = << >>
         /\ call'.arg.info.image_url = << >>) =>
            /\ call'.ret = "None"
            /\ ~call'.oracle
            /\ call'.sent = << >>
            /\ call'.total_requests = call.total_requests
            /\ call'.total_tokens = call.total_tokens ]_vars

\* C15 witness: such a call was made on an appraiser whose counters had
\* already been raised by an earlier call.
C15_Witness ==
    /\ call.fn = "appraise_painting"
    /\ call.arg.info.image_urls = << >>
    /\ call.arg.info.image_url = << >>
    /\ call.ret = "None"
    /\ call.total_requests = 1
    /\ call.total_tokens = 7

\* The three image URLs of the filtering example.
LogoSvg == << "/", "logo", ".svg" >>
NavIconPng == << "NAV", "icon", ".png" >>
ItemsJpg == << "/items/", "12345", ".jpg" >>

\* A URL is acceptable: not empty, an accepted extension in it, and no
\* denylist pattern in it.
Acceptable(url) ==
    /\ url # << >>
    /\ \E ext \in image_formats : Contains(url, ext)
    /\ ~(\E pattern \in exclude_patterns : Contains(url, pattern))

\* C18: image validity.  _is_valid_product_image answers true exactly for
\* the acceptable URLs, whether or not a product-looking pattern is in them,
\* and the image loop keeps exactly the acceptable candidates, in order: of
\* logo.svg, nav/icon.png and items/12345.jpg only the last.
C18_ImageValidity ==
    /\ call.fn = "_is_valid_product_image" =>
          /\ call.ret = Acceptable(call.arg)
          /\ call.arg = << "12345", ".JPG" >> => call.ret = TRUE
    /\ call.fn = "get_painting_details" =>
          /\ call.ret = SelectSeq(call.arg, Acceptable)
          /\ call.arg = << LogoSvg, NavIconPng, ItemsJpg >> =>
                call.ret = << ItemsJpg >>

\* C18 witness: the example list has been filtered.
C18_Witness ==
    /\ call.fn = "get_painting_details"
    /\ call.arg = << LogoSvg, NavIconPng, ItemsJpg >>
    /\ call.ret = << ItemsJpg >>

\* The characters of a string other than '$' and ','.
WithoutCurrencyMarks(str) == SelectSeq(str, LAMBDA c : c \notin {"$", ","})

\* C19: numeric coercion is total.  _get_numeric_value returns a number
\* unchanged, the parsed number for a string that parses once '$' and ','
\* are removed ("$1,5" is 15), and 0 for every other string and every other
\* value; the result is always a number.
C19_NumericCoercion ==
    call.fn = "_get_numeric_value" =>
        /\ call.ret \in Int
        /\ call.arg.type = "number" => call.ret = call.arg.n
        /\ call.arg.type = "str" =>
              call.ret = IF Float(WithoutCurrencyMarks(call.arg.s)).error
                         THEN 0
                         ELSE Float(WithoutCurrencyMarks(call.arg.s)).value
        /\ call.arg.type = "other" => call.ret = 0
        /\ call.arg = String(<< "$", "1", ",", "5" >>) =>
              call.ret = get_numeric_value(Number(15 * Unit))
        /\ call.arg = String(<< "x", "-", "x" >>) => call.ret = 0

\* C19 witness: the currency-formatted string has been coerced to the value
\* of the plain number.
C19_Witness ==
    /\ call.fn = "_get_numeric_value"
    /\ call.arg = String(<< "$", "1", ",", "5" >>)
    /\ call.ret = 15 * Unit

\* C16: rate limiting is never skipped.  The handling of an item that was
\* not dedup-skipped ends (control returns to the head of the item loop) only
\* through the inter-item pause, and the page number advances only through
\* the page pause.
C16_RateLimitNeverSkipped ==
    [][ /\ (pc \in ItemTryPcs \cup {"exc_handler", "exc_save"}
              /\ pc' = "item_loop") => pc = "sleep"
        /\ (pc \notin {"idle", "exited"} /\ page' # page) =>
              pc = "page_sleep" ]_vars

\* The URLs listed on the non-empty pages fetched by the run that is ending
\* (the paging stopped at page `page`).
Listed == UNION { Range(layout[p]) : p \in 1..(page - 1) }

C20_ProcessedFromRows ==
    [][ (pc \in {"idle", "exited"} /\ pc' = "page_loop") =>
          /\ processed_urls' = UrlsOf(appraisals_list')
          /\ data'.processed_urls = UrlsOf(appraisals_list')
          /\ processed_urls' \subseteq UrlsOf(file.rows)
          /\ \A u \in processed_urls \ UrlsOf(file.rows) :
                u \notin processed_urls' ]_vars

\* C20 witness: a run that follows an interrupted one has loaded a Valuation
\* and lacks a URL that the interrupted run had marked without a Valuation.
C20_Witness ==
    /\ prior.interrupted
    /\ pc = "page_loop"
    /\ processed_urls # {}
    /\ processed_urls = UrlsOf(appraisals_list)
    /\ prior.processed_urls \ processed_urls # {}

C22_CheckpointAfterError ==
    [][ (pc \in {"fetch_detail", "appraise", "exc_handler", "exc_save"}
           /\ pc' = "item_loop") =>
          /\ pc = "exc_save"
          /\ save_arg'.called
          /\ save_arg' = SaveArgument'
          /\ CurrentUrl \in save_arg'.processed_urls ]_vars

\* C23: checkpoint after every page.  Whenever the run is about to fetch a
\* page after its first, or is at the pause before that, the last change of
\* the state was followed by a save_appraisals call, made with the cursor at
\* (next page, 0).
C23_CheckpointAfterPage ==
    /\ (pc = "page_sleep") =>
          /\ save_arg.called /\ save_arg = SaveArgument
          /\ save_arg.last_page = page + 1 /\ save_arg.last_item = 0
          /\ i >= Len(paintings)
    /\ (pc = "page_loop" /\ page > start_page) =>
          /\ save_arg.called /\ save_arg = SaveArgument
          /\ save_arg.last_page = page /\ save_arg.last_item = 0

\* C23 witness: page 1 has been handled and saved with a Valuation; the
\* listing fetch of page 2 is next.
C23_Witness ==
    /\ layout = LayoutPages
    /\ pc = "page_loop"
    /\ page = 2
    /\ save_arg.last_page = 2
    /\ Len(appraisals_list) > 0
    /\ file = WriteCsv(appraisals_list)

\* C24: start of a run.  Paging begins at page max(1, last_page) of the
\* loaded state; the first page is iterated from the loaded last_item, every
\* later page from index 0, and no page before the first is fetched.
C24_StartOfRun ==
    [][ /\ (pc = "idle" /\ pc' = "page_loop") =>
              /\ page' = IF data'.last_page >= 1 THEN data'.last_page ELSE 1
              /\ start_page' = page'
        /\ (pc = "page_loop" /\ pc' = "item_loop") =>
              /\ page >= start_page
              /\ page = start_page => i' = data.last_item
              /\ page > start_page => i' = 0 ]_vars

\* C24 witness: the loaded cursor was (0, 1): item 0 of page 1 was never
\* fetched, item 1 was, and page 2 is being iterated from index 0.
C24_Witness ==
    /\ start_page = 1
    /\ page = 2
    /\ pc = "item_loop" /\ i = 0
    /\ fetch_count[1] = 0 /\ 1 \notin processed_urls
    /\ fetch_count[2] = 1

\* C25: paging stops on an empty page or at the ceiling.  No page above the
\* ceiling is ever fetched, and once a listing fetch of this run has returned
\* an empty page the run makes no further listing fetch, detail fetch or
\* oracle call.
C25_PagingStops ==
    [][ /\ \A k \in DOMAIN log'.listed : log'.listed[k] <= max_pages
        /\ (log.empty /\ pc \notin {"idle", "exited"}) =>
              /\ log'.listed = log.listed
              /\ fetch_count' = fetch_count
              /\ oracle_count' = oracle_count ]_vars

\* C25 witness: page 1 was handled, the fetch of page 2 (which has items)
\* came back empty, and the run has ended without fetching any item of it.
C25_Witness ==
    /\ layout = LayoutPages
    /\ log.listed = << 1, 2 >>
    /\ log.empty
    /\ pc = "exited" /\ outcome = "completed"
    /\ fetch_count[1] = 1
    /\ fetch_count[3] = 0

\* C26: termination.  A run makes at most (page ceiling - start page + 1)
\* listing fetches, every started run comes to its end, and a run that ends
\* with no exception propagating has returned its result to main.
C26_Termination ==
    /\ [](Len(log.listed) <= max_pages - start_page + 1)
    /\ [](pc = "exited" /\ unwinding = "none" => outcome = "completed")
    /\ (pc = "page_loop") ~> (pc = "exited")

\* C26 witness: a run started at page 2 of 2 has fetched exactly one listing
\* page, appraised an item of it and returned.
C26_Witness ==
    /\ start_page = 2 /\ max_pages = 2
    /\ log.listed = << 2 >>
    /\ ~log.empty
    /\ Len(appraisals_list) > 0
    /\ pc = "exited" /\ outcome = "completed"

\* C27: failure isolation.  Inside the per-item try an absent detail, an
\* absent appraisal or an exception never leaves the item loop: unless the
\* run is interrupted, control goes on to the next index of the same page;
\* and when a run that started from an empty state is Done, every URL of
\* every non-empty page fetched has been handled, whatever failed before it.
C27_FailureIsolation ==
    [][ /\ (pc \in ItemTryPcs \cup {"exc_handler", "exc_save"}
             /\ unwinding' = "none") =>
              /\ pc' \in ItemTryPcs \cup {"exc_handler", "exc_save", "item_loop"}
              /\ page' = page /\ paintings' = paintings
              /\ pc' = "item_loop" => i' = i + 1
              /\ pc = "exc_handler" => pc' = "exc_save"
              /\ pc = "exc_save" => pc' = "item_loop"
        /\ (pc' = "exited" /\ outcome' = "completed"
             /\ runs_left' = MaxRuns - 1) =>
              \A u \in Listed' : u \in processed_urls' /\ fetch_count'[u] = 1
      ]_vars

\* C27 witness: on page 1 = [A, B] the detail fetch of A failed; B was still
\* appraised; on page 2 = [B, C] the handling of C raised, and the run
\* went through both pages to its end.
C27_Witness ==
    /\ layout = LayoutPages
    /\ pc = "exited" /\ outcome = "completed"
    /\ runs_left = MaxRuns - 1
    /\ page = 3
    /\ fetch_count[1] = 1 /\ oracle_count[1] = 0
    /\ 2 \in log.appraised
    /\ 3 \in log.raised
    /\ processed_urls = {1, 2, 3}

\* C28: no partial item.  A Valuation enters the result sequence only as the
\* complete Appraisal that appraise_painting returned for the current item
\* (or by loading it from the file), a row enters the file only from the
\* result sequence, and a URL whose detail this run fetched but for which no
\* Appraisal was returned (detail absent, oracle failed, run interrupted in
\* between) is not in the result sequence.
C28_NoPartialItem ==
    [][ /\ \A r \in Keys(appraisals_list') \ Keys(appraisals_list) :
              \/ pc \in {"idle", "exited"} /\ r \in Durable
              \/ /\ pc = "append"
                 /\ r.url = CurrentUrl
                 /\ r.url \in log.appraised
                 /\ r.best = OracleBest(r.url)
        /\ Durable' \ Durable \subseteq Keys(appraisals_list)
        /\ \A u \in URLs :
              (fetch_count'[u] > 0 /\ u \notin log'.appraised) =>
                  u \notin UrlsOf(appraisals_list') ]_vars

\* C28 witness: the run was interrupted after the detail fetch of B and
\* before its appraisal returned; A had been appraised; the final save wrote
\* A alone.
C28_Witness ==
    /\ layout = LayoutPages
    /\ pc = "exited" /\ outcome = "interrupted"
    /\ fetch_count[2] = 1
    /\ 2 \notin log.appraised
    /\ log.appraised = {1}
    /\ UrlsOf(appraisals_list) = {1}
    /\ file = WriteCsv(appraisals_list)

\* C29: every invocation of the oracle by appraise_painting carries at least
\* one image, and the images sent are a prefix of the available images, of
\* length at most max_images when max_images is configured (0 included).
C29_OracleGetsAnImage ==
    (call.fn = "appraise_painting" /\ call.oracle) =>
        LET images == AvailableImages(call.arg.info) IN
        /\ Len(call.sent) >= 1
        /\ Len(call.sent) <= Len(images)
        /\ call.sent = SubSeq(images, 1, Len(call.sent))
        /\ call.arg.max_images # NoLimit =>
               Len(call.sent) <= call.arg.max_images

\* C30: save_appraisals called while the result sequence is empty raises
\* nothing and leaves the file exactly as it was (absent stays absent, an
\* existing file keeps its rows), at every checkpoint including the final
\* save of a run that produced no Valuation.
C30_EmptySaveKeepsFile ==
    [][ (IsSaveCall /\ appraisals_list = << >>) =>
          /\ file' = file
          /\ save_failures' = save_failures
          /\ save_arg'.called /\ save_arg'.keys = {}
          /\ pc' = AfterSaveCall(pc) ]_vars

\* C30 witness: a run that loaded nothing and produced no Valuation has made
\* its final save, and the file of an earlier run still holds its rows.
C30_Witness ==
    /\ pc = "sort"
    /\ appraisals_list = << >>
    /\ save_arg.called
    /\ file.kind = "ok" /\ Len(file.rows) > 0
    /\ \E u \in URLs : fetch_count[u] > 0

\* C31: strictly sequential order.  The listing fetches of a run are for the
\* consecutive pages start_page, start_page + 1, ...; within a page the
\* index only stays or grows by one, it grows only when the handling of the
\* current item has ended, and a detail fetch or an oracle call is made for
\* the current item only.
C31_SequentialOrder ==
    [][ /\ \A k \in 1..Len(log'.listed) : log'.listed[k] = start_page' + k - 1
        /\ (pc \in ItemTryPcs \cup {"item_loop", "announce", "exc_handler",
                                     "exc_save"}) =>
              /\ i' \in {i, i + 1}
              /\ i' = i + 1 => (/\ pc' = "item_loop"
                                /\ pc \in {"item_loop", "fetch_detail",
                                            "appraise", "sleep", "exc_save"})
              /\ (pc \in {"fetch_detail", "appraise", "sleep", "exc_save"}
                  /\ pc' = "item_loop") => i' = i + 1
              /\ \A u \in URLs :
                    /\ fetch_count'[u] # fetch_count[u] =>
                          pc = "fetch_detail" /\ u = CurrentUrl
                    /\ oracle_count'[u] # oracle_count[u] =>
                          pc = "appraise" /\ u = CurrentUrl ]_vars

\* C31 witness: pages 1 and 2 were fetched in this order and both items of
\* page 2 have been passed, the second after its own detail fetch.
C31_Witness ==
    /\ layout = LayoutPages
    /\ log.listed = << 1, 2 >>
    /\ pc = "item_loop" /\ page = 2 /\ i = 2
    /\ fetch_count[1] = 1 /\ fetch_count[2] = 1 /\ fetch_count[3] = 1

\* C32: the processed set only grows.  No step of a run removes a URL from
\* the in-memory processed set, nor from the set held in the data record.
C32_ProcessedOnlyGrows ==
    [][ pc \notin {"idle", "exited"} =>
          /\ processed_urls \subseteq processed_urls'
          /\ data.processed_urls \subseteq data'.processed_urls ]_vars

\* C32 witness: after a failed detail fetch, a success, a page change and an
\* exception the run is interrupted on page 2 holding all three URLs.
C32_Witness ==
    /\ layout = LayoutPages
    /\ pc = "finally" /\ unwinding = "KeyboardInterrupt"
    /\ page = 2
    /\ oracle_count[1] = 0
    /\ 2 \in log.appraised
    /\ 3 \in log.raised
    /\ processed_urls = {1, 2, 3}
    /\ data.processed_urls = {1, 2, 3}

\* s is t with some entries left out, the others in their order.
IsSubsequence(s, t) ==
    \E f \in [1..Len(s) -> 1..Len(t)] :
        /\ \A k \in 1..Len(s) : t[f[k]] = s[k]
        /\ \A j \in 1..Len(s) : \A k \in 1..Len(s) : j < k => f[j] < f[k]

\* C33: image selection.  The retained images are the candidates that pass
\* _is_valid_product_image, all of them and in their order; the primary
\* image is the first retained one, and is unset exactly when none is
\* retained.
C33_ImageSelection ==
    call.fn = "get_painting_details" =>
        /\ IsSubsequence(call.ret, call.arg)
        /\ \A k \in 1..Len(call.ret) : is_valid_product_image(call.ret[k])
        /\ Len(call.ret) = Cardinality({ k \in 1..Len(call.arg) :
                                           is_valid_product_image(call.arg[k]) })
        /\ call.primary = NoImage <=> call.ret = << >>
        /\ call.ret # << >> => call.primary = call.ret[1]

\* C33 witness: of a logo and two product images the two product images are
\* retained and the first of them is the primary image.
C33_Witness ==
    /\ call.fn = "get_painting_details"
    /\ call.arg = << LogoSvg, ItemsJpg, << "12345", ".JPG" >> >>
    /\ call.ret = << ItemsJpg, << "12345", ".JPG" >> >>
    /\ call.primary = ItemsJpg

\* The three running totals of a call record.
Counters(c) == << c.total_requests, c.total_tokens, c.total_input_tokens >>

\* C34: usage counters.  No step lowers a counter; an appraise_painting call
\* whose oracle response carries usage data raises the request counter by 1
\* and each token counter by the reported amount; a response without usage
\* data, a failed oracle call, a no-image return and every other operation
\* leave the counters as they were.
C34_UsageCounters ==
    [][ /\ \A k \in 1..3 : Counters(call')[k] >= Counters(call)[k]
        /\ IF /\ call.fn = "none" /\ call'.fn = "appraise_painting"
              /\ call'.oracle
              /\ call'.response \in {"usage", "usage, no answer"}
           THEN /\ call'.total_requests = call.total_requests + 1
                /\ call'.total_tokens =
                      call.total_tokens + call'.usage.total_tokens
                /\ call'.total_input_tokens =
                      call.total_input_tokens + call'.usage.input_tokens
           ELSE Counters(call') = Counters(call) ]_vars

\* C34 witness: after one response with usage data was counted, a response
\* without usage data has left the totals at one request, 7 and 3 tokens.
C34_Witness ==
    /\ call.fn = "appraise_painting"
    /\ call.oracle
    /\ call.response = "no usage"
    /\ call.ret = "Appraisal"
    /\ call.total_requests = 1
    /\ call.total_tokens = 7
    /\ call.total_input_tokens = 3

\* C35: single-item mode.  While the program runs with --url (and a key) it
\* fetches no listing, loads nothing, saves nothing and leaves the file as it
\* is; it fetches and appraises the given URL only, and its result holds at
\* most one Valuation, that of the URL, and none when the detail or the
\* appraisal is absent.
C35_SingleUrlMode ==
    [][ (args'.api_key = "sk" /\ args'.url # NoUrl) =>
          /\ file' = file
          /\ save_failures' = save_failures
          /\ load_failures' = load_failures
          /\ ~save_arg'.called
          /\ log'.listed = << >>
          /\ \A u \in URLs \ {args'.url} :
                fetch_count'[u] = 0 /\ oracle_count'[u] = 0
          /\ Len(appraisals_list') <= 1
          /\ \A k \in 1..Len(appraisals_list') :
                appraisals_list'[k] = [url |-> args'.url,
                                       best |-> OracleBest(args'.url)]
          /\ (pc' = "exited" /\ outcome' = "completed") =>
                (appraisals_list' # << >> <=> args'.url \in log'.appraised) ]_vars

\* C35 witness: the URL was appraised in single-item mode while the file of
\* an earlier batch run holds other rows; the file is as that run left it.
C35_Witness ==
    /\ args = [api_key |-> "sk", url |-> 3]
    /\ pc = "exited" /\ outcome = "completed"
    /\ appraisals_list = << [url |-> 3, best |-> OracleBest(3)] >>
    /\ file.kind = "ok"
    /\ UrlsOf(file.rows) = {1, 2}

\* C36: fatal configuration error.  A start without the credential (unset or
\* empty) ends at once with a non-zero status: no listing fetch, no detail
\* fetch, no oracle call, no load and no save, and the file is untouched.
C36_MissingCredential ==
    [][ args'.api_key \in {"absent", ""} =>
          /\ pc' = "exited"
          /\ exit_code' # 0
          /\ log'.listed = << >>
          /\ fetch_count' = ZeroCount
          /\ oracle_count' = ZeroCount
          /\ ~save_arg'.called
          /\ appraisals_list' = << >>
          /\ file' = file
          /\ save_failures' = save_failures
          /\ load_failures' = load_failures ]_vars

\* C36 witness: a start with an empty key and --url has ended with status 1
\* beside the file of an earlier run.
C36_Witness ==
    /\ args = [api_key |-> "", url |-> 3]
    /\ pc = "exited"
    /\ exit_code = 1
    /\ file.kind = "ok"
    /\ Len(file.rows) > 0

\* The files of a directory.
Files(d) == << d.progress, d.progress_backup, d.appraisals, d.valuable,
              d.valuable_backup >>

====
